---- MODULE Spec2Model ----
(***************************************************************************)
(* The sales notebook 01_Combining-Multiple-Excel-File-with-Pandas.py as a *)
(* state machine: one action per executed cell statement, in cell order.   *)
(* A DataFrame is a record [id, columns, rows, categories]: id is the      *)
(* identity of the Python object (a statement that returns a new frame     *)
(* takes a fresh id, a statement that works in place keeps the id),        *)
(* columns is the column index, rows the sequence of rows (each a function *)
(* from column name to value) and categories the categories of the status  *)
(* column once it has the category dtype (<<>> while it is object dtype).  *)
(***************************************************************************)
EXTENDS Integers, Sequences, FiniteSets, TLC

\* ---- bounds of the model ----
MaxFiles == 2      \* files matched by the glob
MaxRows == 2       \* rows of all the sales files together
MaxRef == 2        \* rows of customer-status.xlsx

\* ---- values ----
NaN == "NaN"
Accounts == {1, 2}
Names == {"A", NaN}
RefNames == {"A"}
Quantities == {1}
RawDates == {"2014-01-01"}
RefStatuses == {"gold", "silver", "platinum", NaN}

SalesColumns ==
    <<"account number", "name", "sku", "quantity", "unit price", "ext price", "date">>
StatusColumns == <<"account number", "name", "status">>

Range(s) == {s[i] : i \in 1..Len(s)}

\* a row of a sales file, as read_excel returns it
SalesRow(a, n, q, d) ==
    [c \in Range(SalesColumns) |->
        CASE c = "account number" -> a
          [] c = "name" -> n
          [] c = "sku" -> "B1-20000"
          [] c = "quantity" -> q
          [] c = "unit price" -> 10
          [] c = "ext price" -> q * 10
          [] c = "date" -> d]

SalesRows == {SalesRow(a, n, q, d) : a \in Accounts, n \in Names, q \in Quantities, d \in RawDates}

StatusRow(a, n, s) ==
    [c \in Range(StatusColumns) |->
        CASE c = "account number" -> a
          [] c = "name" -> n
          [] c = "status" -> s]

StatusRows == {StatusRow(a, n, s) : a \in Accounts, n \in RefNames, s \in RefStatuses}

SeqsUpTo(S, n) == UNION {[1..k -> S] : k \in 0..n}

\* the sheets read_excel can return for a sales file: at least one row
SalesSheets(n) == SeqsUpTo(SalesRows, n) \ {<<>>}

NoFrame == [id |-> -1, columns |-> <<>>, rows |-> <<>>, categories |-> <<>>]

VARIABLES pc, files, nextid, all_data, status, all_data_st,
          sorted_before, sorted_after, grouped_mean, grouped_agg, counted

vars == <<pc, files, nextid, all_data, status, all_data_st,
          sorted_before, sorted_after, grouped_mean, grouped_agg, counted>>

\* ---- pandas operations ----

\* mutant of append: the new rows are put first
append_first(self, df, newid) ==
    [id |-> newid,
     columns |-> self.columns \o SelectSeq(df.columns, LAMBDA c : c \notin Range(self.columns)),
     rows |-> df.rows \o self.rows,
     categories |-> <<>>]

\* mutant of append: the rows are added to self itself, as list.append does
append_inplace(self, df, newid) ==
    [id |-> self.id,
     columns |-> self.columns \o SelectSeq(df.columns, LAMBDA c : c \notin Range(self.columns)),
     rows |-> self.rows \o df.rows,
     categories |-> <<>>]

\* DataFrame.append(df, ignore_index=True): a new frame, self's rows then df's
append(self, df, newid) ==
    [id |-> newid,
     columns |-> self.columns \o SelectSeq(df.columns, LAMBDA c : c \notin Range(self.columns)),
     rows |-> self.rows \o df.rows,
     categories |-> <<>>]

\* pd.to_datetime on one value: a date string is parsed into a Timestamp
\* (written here by its repr), a Timestamp is kept
to_datetime(v) ==
    IF v = "2014-01-01" THEN "Timestamp('2014-01-01 00:00:00')" ELSE v

\* the columns pd.merge joins on when no `on` is given: those both frames have
common_columns(left, right) == SelectSeq(left.columns, LAMBDA c : c \in Range(right.columns))

SameKey(l, r, on) == \A k \in 1..Len(on) : l[on[k]] = r[on[k]]

\* one left row joined with the right rows m that match it: with the first of
\* them when there is one, and with NaN in the right-only columns when not
Joined(l, m, cols) ==
    [c \in Range(cols) |->
        IF c \in DOMAIN l THEN l[c] ELSE IF m = <<>> THEN NaN ELSE Head(m)[c]]

RECURSIVE left_join(_, _, _, _)
left_join(L, R, cols, on) ==
    IF L = <<>> THEN <<>>
    ELSE LET l == Head(L)
             m == SelectSeq(R, LAMBDA r : SameKey(l, r, on))
         IN  (IF m = <<>> THEN <<Joined(l, m, cols)>>
              ELSE [j \in 1..Len(m) |-> Joined(l, SubSeq(m, j, j), cols)])
             \o left_join(Tail(L), R, cols, on)

\* mutant of merge: an inner join, which drops the rows without a match
merge_inner(left, right, newid) ==
    LET on == common_columns(left, right)
        cols == left.columns \o SelectSeq(right.columns, LAMBDA c : c \notin Range(left.columns))
        kept == SelectSeq(left.rows,
                    LAMBDA l : \E j \in 1..Len(right.rows) : SameKey(l, right.rows[j], on))
    IN  [id |-> newid, columns |-> cols,
         rows |-> left_join(kept, right.rows, cols, on),
         categories |-> <<>>]

\* what a failed pd.merge leaves: no frame; the ValueError ends the notebook
ValueError == [id |-> -2, columns |-> <<>>, rows |-> <<>>, categories |-> <<>>]

\* the kind of values pandas infers for a column with rows: the account
\* numbers are integers; a name column read with every cell empty is float64
\* (all NaN), and it is object (strings) once one name is there
inferred_kind(frame, c) ==
    IF c = "account number" THEN "integer"
    ELSE IF \A i \in 1..Len(frame.rows) : frame.rows[i][c] = NaN THEN "floating"
    ELSE "string"

\* the key check of pd.merge (pandas 0.23 and later): a key column that holds
\* strings in one frame and numbers in the other cannot be merged on; a frame
\* without rows is not checked
keys_coercible(left, right, on) ==
    \A k \in 1..Len(on) :
        \/ left.rows = <<>>
        \/ right.rows = <<>>
        \/ (inferred_kind(left, on[k]) = "string") = (inferred_kind(right, on[k]) = "string")

\* pd.merge(left, right, how='left')
merge(left, right, newid) ==
    LET on == common_columns(left, right)
        cols == left.columns \o SelectSeq(right.columns, LAMBDA c : c \notin Range(left.columns))
    IN  IF ~keys_coercible(left, right, on) THEN ValueError
        ELSE [id |-> newid, columns |-> cols,
              rows |-> left_join(left.rows, right.rows, cols, on),
              categories |-> <<>>]

\* mutant of fillna: the fill is made on a copy and the frame keeps its NaN
fillna_copy(frame, col, value) == frame

\* mutant of fillna: every status is overwritten
fillna_all(frame, col, value) ==
    [frame EXCEPT !.rows =
        [i \in 1..Len(frame.rows) |-> [frame.rows[i] EXCEPT ![col] = value]]]

\* Series.fillna(value, inplace=True) on column col of frame
fillna(frame, col, value) ==
    [frame EXCEPT !.rows =
        [i \in 1..Len(frame.rows) |->
            IF frame.rows[i][col] = NaN
            THEN [frame.rows[i] EXCEPT ![col] = value]
            ELSE frame.rows[i]]]

\* the order Python gives the status strings (sorted() of the unique values)
LexOrder == <<"bronze", "gold", "platinum", "silver">>

\* Series.astype("category"): the categories are the sorted unique non-NaN values
astype_category(frame, col) ==
    [frame EXCEPT !.categories =
        SelectSeq(LexOrder, LAMBDA s : \E i \in 1..Len(frame.rows) : frame.rows[i][col] = s)]

\* the code of a value of a categorical: its position among the categories,
\* 0 (pandas: -1) for a value that is none of them
Code(v, cats) ==
    IF \E k \in 1..Len(cats) : cats[k] = v
    THEN CHOOSE k \in 1..Len(cats) : cats[k] = v
    ELSE 0

\* sort key of a categorical value: its code, NaN last (na_position='last')
SortKey(v, cats) == IF Code(v, cats) = 0 THEN Len(cats) + 1 ELSE Code(v, cats)

Insert(x, s, col, cats) ==
    LET k == Cardinality({i \in 1..Len(s) : SortKey(s[i][col], cats) <= SortKey(x[col], cats)})
    IN  SubSeq(s, 1, k) \o <<x>> \o SubSeq(s, k + 1, Len(s))

RECURSIVE sort_rows(_, _, _)
sort_rows(rows, col, cats) ==
    IF rows = <<>> THEN <<>>
    ELSE Insert(rows[Len(rows)], sort_rows(SubSeq(rows, 1, Len(rows) - 1), col, cats), col, cats)

\* DataFrame.sort_values(by=[col]) on a categorical column: a new frame
sort_values(frame, col, newid) ==
    [frame EXCEPT !.id = newid, !.rows = sort_rows(frame.rows, col, frame.categories)]

\* mutant of set_categories: the categories are kept in sorted order
set_categories_sorted(frame, col, new) ==
    [frame EXCEPT
        !.categories = SelectSeq(LexOrder, LAMBDA s : s \in Range(new)),
        !.rows = [i \in 1..Len(frame.rows) |->
                    IF Code(frame.rows[i][col], new) = 0
                    THEN [frame.rows[i] EXCEPT ![col] = NaN]
                    ELSE frame.rows[i]]]

\* Series.cat.set_categories(new, inplace=True): the categories become new, and
\* a value that is none of them becomes NaN
set_categories(frame, col, new) ==
    [frame EXCEPT
        !.categories = new,
        !.rows = [i \in 1..Len(frame.rows) |->
                    IF Code(frame.rows[i][col], new) = 0
                    THEN [frame.rows[i] EXCEPT ![col] = NaN]
                    ELSE frame.rows[i]]]

RECURSIVE Sum(_, _)
Sum(rows, col) == IF rows = <<>> THEN 0 ELSE Head(rows)[col] + Sum(Tail(rows), col)

\* mutant of groupby_agg: only the categories some row carries (observed=True)
groupby_agg_observed(frame, by, valuecols) ==
    LET cats == SelectSeq(frame.categories,
                    LAMBDA c : \E i \in 1..Len(frame.rows) : frame.rows[i][by] = c)
    IN  [k \in 1..Len(cats) |->
            LET g == SelectSeq(frame.rows, LAMBDA r : r[by] = cats[k])
            IN  [status |-> cats[k], n |-> Len(g),
                 sum |-> [c \in valuecols |-> Sum(g, c)]]]

\* DataFrame.groupby([by])[value columns] aggregated, by a categorical column:
\* one row per category, in category order; n is the number of rows of the
\* group and sum the sums of the value columns (mean = sum / n, NaN when n = 0)
groupby_agg(frame, by, valuecols) ==
    [k \in 1..Len(frame.categories) |->
        LET g == SelectSeq(frame.rows, LAMBDA r : r[by] = frame.categories[k])
        IN  [status |-> frame.categories[k], n |-> Len(g),
             sum |-> [c \in valuecols |-> Sum(g, c)]]]

RECURSIVE drop_dup_rows(_, _)
drop_dup_rows(rows, subset) ==
    IF rows = <<>> THEN <<>>
    ELSE LET front == SubSeq(rows, 1, Len(rows) - 1)
             last == rows[Len(rows)]
         IN  IF \E i \in 1..Len(front) : \A c \in subset : front[i][c] = last[c]
             THEN drop_dup_rows(front, subset)
             ELSE Append(drop_dup_rows(front, subset), last)

RECURSIVE keep_last_rows(_, _)
keep_last_rows(rows, subset) ==
    IF rows = <<>> THEN <<>>
    ELSE IF \E i \in 2..Len(rows) : \A c \in subset : rows[i][c] = rows[1][c]
         THEN keep_last_rows(Tail(rows), subset)
         ELSE <<Head(rows)>> \o keep_last_rows(Tail(rows), subset)

\* mutant of drop_duplicates: the last occurrences are kept (keep='last')
drop_duplicates_last(frame, subset, newid) ==
    [frame EXCEPT !.id = newid, !.rows = keep_last_rows(frame.rows, subset)]

\* DataFrame.drop_duplicates(subset=...): a new frame, first occurrences kept
drop_duplicates(frame, subset, newid) ==
    [frame EXCEPT !.id = newid, !.rows = drop_dup_rows(frame.rows, subset)]

\* DataFrame.iloc[:, positions] (positions from 0): a new frame of those columns
iloc(frame, positions, newid) ==
    LET cols == [k \in 1..Len(positions) |-> frame.columns[positions[k] + 1]]
    IN  [frame EXCEPT !.id = newid, !.columns = cols,
            !.rows = [i \in 1..Len(frame.rows) |->
                        [c \in Range(cols) |-> frame.rows[i][c]]]]

\* DataFrame.groupby([by])[col].count(): per category, the rows of the group
\* whose col is not NaN
groupby_count(frame, by, col) ==
    [k \in 1..Len(frame.categories) |->
        [status |-> frame.categories[k],
         count |-> Len(SelectSeq(frame.rows,
                         LAMBDA r : r[by] = frame.categories[k] /\ r[col] # NaN))]]

\* ---- the notebook ----

Init ==
    /\ pc = "load"
    /\ files = <<>>
    /\ nextid = 1
    /\ all_data = [id |-> 0, columns |-> <<>>, rows |-> <<>>, categories |-> <<>>]
    /\ status = NoFrame
    /\ all_data_st = NoFrame
    /\ sorted_before = NoFrame
    /\ sorted_after = NoFrame
    /\ grouped_mean = <<>>
    /\ grouped_agg = <<>>
    /\ counted = <<>>

\* In[8], one turn of the loop: read the next file and append it
ReadAppend ==
    /\ pc = "load"
    /\ Len(files) < MaxFiles
    /\ \E df \in SalesSheets(MaxRows - Len(all_data.rows)) :
          /\ files' = Append(files, df)
          /\ all_data' = append(all_data,
                                [columns |-> SalesColumns, rows |-> df], nextid)
    /\ nextid' = nextid + 1
    /\ UNCHANGED <<pc, status, all_data_st, sorted_before, sorted_after,
                   grouped_mean, grouped_agg, counted>>

\* In[8]: the glob has no more files
EndLoad ==
    /\ pc = "load"
    /\ pc' = "describe"
    /\ UNCHANGED <<files, nextid, all_data, status, all_data_st, sorted_before,
                   sorted_after, grouped_mean, grouped_agg, counted>>

\* In[10]: all_data.describe(), which raises on a frame without columns (the
\* frame of a glob that matched no file) and only displays otherwise
Describe ==
    /\ pc = "describe"
    /\ pc' = IF all_data.columns = <<>>
             THEN "ValueError: Cannot describe a DataFrame without columns"
             ELSE "to_datetime"
    /\ UNCHANGED <<files, nextid, all_data, status, all_data_st, sorted_before,
                   sorted_after, grouped_mean, grouped_agg, counted>>

\* In[13]: all_data['date'] = pd.to_datetime(all_data['date'])
ToDatetime ==
    /\ pc = "to_datetime"
    /\ IF "date" \in Range(all_data.columns)
       THEN /\ all_data' = [all_data EXCEPT !.rows =
                              [i \in 1..Len(all_data.rows) |->
                                 [all_data.rows[i] EXCEPT !["date"] = to_datetime(@)]]]
            /\ pc' = "read_status"
       ELSE /\ pc' = "KeyError"
            /\ UNCHANGED all_data
    /\ UNCHANGED <<files, nextid, status, all_data_st, sorted_before,
                   sorted_after, grouped_mean, grouped_agg, counted>>

\* In[14]: status = pd.read_excel("../data/customer-status.xlsx")
ReadStatus ==
    /\ pc = "read_status"
    /\ \E t \in SeqsUpTo(StatusRows, MaxRef) :
          status' = [id |-> nextid, columns |-> StatusColumns, rows |-> t,
                     categories |-> <<>>]
    /\ nextid' = nextid + 1
    /\ pc' = "merge"
    /\ UNCHANGED <<files, all_data, all_data_st, sorted_before, sorted_after,
                   grouped_mean, grouped_agg, counted>>

\* In[16]: all_data_st = pd.merge(all_data, status, how='left')
Merge ==
    /\ pc = "merge"
    /\ IF merge(all_data, status, nextid) = ValueError
       THEN /\ pc' = "ValueError"
            /\ UNCHANGED <<all_data_st, nextid>>
       ELSE /\ all_data_st' = merge(all_data, status, nextid)
            /\ nextid' = nextid + 1
            /\ pc' = "fillna"
    /\ UNCHANGED <<files, all_data, status, sorted_before, sorted_after,
                   grouped_mean, grouped_agg, counted>>

\* In[20]: all_data_st['status'].fillna('bronze', inplace=True)
Fillna ==
    /\ pc = "fillna"
    /\ all_data_st' = fillna(all_data_st, "status", "bronze")
    /\ pc' = "astype"
    /\ UNCHANGED <<files, nextid, all_data, status, sorted_before, sorted_after,
                   grouped_mean, grouped_agg, counted>>

\* In[24]: all_data_st["status"] = all_data_st["status"].astype("category")
AsType ==
    /\ pc = "astype"
    /\ all_data_st' = astype_category(all_data_st, "status")
    /\ pc' = "sort_before"
    /\ UNCHANGED <<files, nextid, all_data, status, sorted_before, sorted_after,
                   grouped_mean, grouped_agg, counted>>

\* In[27]: all_data_st.sort_values(by=["status"])
SortBefore ==
    /\ pc = "sort_before"
    /\ sorted_before' = sort_values(all_data_st, "status", nextid)
    /\ nextid' = nextid + 1
    /\ pc' = "set_categories"
    /\ UNCHANGED <<files, all_data, status, all_data_st, sorted_after,
                   grouped_mean, grouped_agg, counted>>

\* In[28]: all_data_st["status"].cat.set_categories(["gold","silver","bronze"], inplace=True)
SetCategories ==
    /\ pc = "set_categories"
    /\ all_data_st' = set_categories(all_data_st, "status", <<"gold", "silver", "bronze">>)
    /\ pc' = "sort_after"
    /\ UNCHANGED <<files, nextid, all_data, status, sorted_before, sorted_after,
                   grouped_mean, grouped_agg, counted>>

\* In[29]: all_data_st.sort_values(by=["status"])
SortAfter ==
    /\ pc = "sort_after"
    /\ sorted_after' = sort_values(all_data_st, "status", nextid)
    /\ nextid' = nextid + 1
    /\ pc' = "groupby_mean"
    /\ UNCHANGED <<files, all_data, status, all_data_st, sorted_before,
                   grouped_mean, grouped_agg, counted>>

\* In[31]: all_data_st.groupby(["status"])["quantity","unit price","ext price"].mean()
GroupbyMean ==
    /\ pc = "groupby_mean"
    /\ grouped_mean' = groupby_agg(all_data_st, "status",
                                   {"quantity", "unit price", "ext price"})
    /\ pc' = "groupby_agg"
    /\ UNCHANGED <<files, nextid, all_data, status, all_data_st, sorted_before,
                   sorted_after, grouped_agg, counted>>

\* In[32]: ....agg([np.sum, np.mean, np.std])
GroupbyAgg ==
    /\ pc = "groupby_agg"
    /\ grouped_agg' = groupby_agg(all_data_st, "status",
                                  {"quantity", "unit price", "ext price"})
    /\ pc' = "count"
    /\ UNCHANGED <<files, nextid, all_data, status, all_data_st, sorted_before,
                   sorted_after, grouped_mean, counted>>

\* In[33]: drop_duplicates(subset=["account number","name"]).iloc[:,[0,1,7]]
\*         .groupby(["status"])["name"].count()
UniqueCount ==
    /\ pc = "count"
    /\ counted' = groupby_count(
                      iloc(drop_duplicates(all_data_st, {"account number", "name"}, nextid),
                           <<0, 1, 7>>, nextid + 1),
                      "status", "name")
    /\ nextid' = nextid + 2
    /\ pc' = "done"
    /\ UNCHANGED <<files, all_data, status, all_data_st, sorted_before,
                   sorted_after, grouped_mean, grouped_agg>>

Next ==
    \/ ReadAppend
    \/ EndLoad
    \/ Describe
    \/ ToDatetime
    \/ ReadStatus
    \/ Merge
    \/ Fillna
    \/ AsType
    \/ SortBefore
    \/ SetCategories
    \/ SortAfter
    \/ GroupbyMean
    \/ GroupbyAgg
    \/ UniqueCount

Spec == Init /\ [][Next]_vars

\* ---- properties ----

Levels == {"gold", "silver", "bronze"}
KeyCols == {"account number", "name"}
KeyEq(a, b) == \A c \in KeyCols : a[c] = b[c]
SalesPart(r) == [c \in Range(SalesColumns) |-> r[c]]

\* the rows of the status table with the key of row l, and the m-th of them
RefMatches(l) == {j \in 1..Len(status.rows) : KeyEq(l, status.rows[j])}
NthMatch(l, m) ==
    CHOOSE j \in RefMatches(l) : Cardinality({x \in RefMatches(l) : x < j}) = m - 1
Yield(l) == IF RefMatches(l) = {} THEN 1 ELSE Cardinality(RefMatches(l))
RefKeysUnique ==
    \A i, j \in 1..Len(status.rows) : KeyEq(status.rows[i], status.rows[j]) => i = j

\* the number of joined rows the sales rows before the i-th yield
RECURSIVE Offset(_)
Offset(i) == IF i = 1 THEN 0 ELSE Offset(i - 1) + Yield(all_data.rows[i - 1])

\* the number of rows of the files before the i-th
RECURSIVE FileOffset(_)
FileOffset(i) == IF i = 1 THEN 0 ELSE FileOffset(i - 1) + Len(files[i - 1])

\* C7: while and after the files are loaded, the concatenated table has as
\* many rows as the files read together, the columns of the files, and the
\* rows of the files in file-then-row order.
C7_ConcatFileThenRow ==
    (pc \in {"load", "describe", "to_datetime"} /\ Len(files) >= 1) =>
        /\ Len(all_data.rows) = FileOffset(Len(files) + 1)
        /\ Range(all_data.columns) = Range(SalesColumns)
        /\ \A i \in 1..Len(files) : \A j \in 1..Len(files[i]) :
              all_data.rows[FileOffset(i) + j] = files[i][j]

C7_Witness ==
    /\ pc = "to_datetime"
    /\ Len(files) = 2
    /\ files[1] # files[2]
    /\ Len(all_data.rows) = 2

\* C2: right after the merge, every sales row yields, in sales row order, one
\* joined row when no status row has its key and one joined row per status
\* row with its key otherwise (in status row order), each carrying the sales
\* row unchanged; with unique status keys the joined table has exactly the
\* sales rows, one for one, in order.
C2_LeftJoinRows ==
    pc = "fillna" =>
        LET L == all_data.rows
            O == all_data_st.rows
        IN  /\ Len(O) = Offset(Len(L) + 1)
            /\ \A i \in 1..Len(L) : \A m \in 1..Yield(L[i]) :
                  /\ SalesPart(O[Offset(i) + m]) = L[i]
                  /\ O[Offset(i) + m]["status"] =
                        IF RefMatches(L[i]) = {} THEN NaN
                        ELSE status.rows[NthMatch(L[i], m)]["status"]
            /\ RefKeysUnique =>
                  /\ Len(O) = Len(L)
                  /\ \A i \in 1..Len(L) : SalesPart(O[i]) = L[i]

\* a fan-out beside an unmatched row
C2_Witness ==
    /\ pc = "fillna"
    /\ Len(all_data.rows) = 2
    /\ Len(all_data_st.rows) = 3
    /\ \E i \in 1..2 : RefMatches(all_data.rows[i]) = {}

\* C1 as claimed: after the fill every row has a status, which is the status
\* of a status row with its key, or 'bronze' when no status row has its key.
C1_Original ==
    pc = "astype" =>
        \A p \in 1..Len(all_data_st.rows) :
            LET r == all_data_st.rows[p]
            IN  /\ r["status"] # NaN
                /\ \/ \E j \in RefMatches(r) : status.rows[j]["status"] = r["status"]
                   \/ RefMatches(r) = {} /\ r["status"] = "bronze"

\* C1 as amended: after the fill every row has a status: the status of a status
\* row with its key when that status is not missing, and 'bronze' when no
\* status row has its key or the matching status is itself missing.
C1_StatusNeverMissing ==
    pc = "astype" =>
        \A p \in 1..Len(all_data_st.rows) :
            LET r == all_data_st.rows[p]
            IN  /\ r["status"] # NaN
                /\ \/ \E j \in RefMatches(r) :
                        /\ status.rows[j]["status"] # NaN
                        /\ status.rows[j]["status"] = r["status"]
                   \/ /\ r["status"] = "bronze"
                      /\ \/ RefMatches(r) = {}
                         \/ \E j \in RefMatches(r) : status.rows[j]["status"] = NaN

\* an unmatched row, a matched row and a row matched to a missing status
C1_Witness ==
    /\ pc = "astype"
    /\ \E p, q \in 1..Len(all_data_st.rows) :
          /\ RefMatches(all_data_st.rows[p]) = {}
          /\ \E j \in RefMatches(all_data_st.rows[q]) : status.rows[j]["status"] = NaN

\* C3 as claimed: the fill leaves every row that matched a status row as it
\* is, a missing status included, and gives every unmatched row 'bronze'.
C3_Original ==
    [][pc = "fillna" =>
        \A p \in 1..Len(all_data_st.rows) :
            IF RefMatches(all_data_st.rows[p]) # {}
            THEN all_data_st'.rows[p] = all_data_st.rows[p]
            ELSE all_data_st'.rows[p] =
                    [all_data_st.rows[p] EXCEPT !["status"] = "bronze"]]_vars

\* C3 as amended: the fill changes only rows whose status is missing after the
\* join: a row whose status is present keeps it, and every row whose status
\* is missing, unmatched or matched to a missing status, gets 'bronze'; no
\* other column and no row count changes.
C3_FillOnlyMissing ==
    [][pc = "fillna" =>
        /\ Len(all_data_st'.rows) = Len(all_data_st.rows)
        /\ \A p \in 1..Len(all_data_st.rows) :
            IF all_data_st.rows[p]["status"] # NaN
            THEN all_data_st'.rows[p] = all_data_st.rows[p]
            ELSE all_data_st'.rows[p] =
                    [all_data_st.rows[p] EXCEPT !["status"] = "bronze"]]_vars

\* after the fill: an unmatched row beside a matched row that kept 'gold'
C3_Witness ==
    /\ pc = "astype"
    /\ \E p, q \in 1..Len(all_data_st.rows) :
          /\ RefMatches(all_data_st.rows[p]) = {}
          /\ all_data_st.rows[p]["status"] = "bronze"
          /\ RefMatches(all_data_st.rows[q]) # {}
          /\ all_data_st.rows[q]["status"] = "gold"

\* C4 as claimed: when a status of the table is none of the levels, assigning
\* the category order fails: the notebook does not go on with a tagged table
\* and no value is turned into a missing one.
C4_InvalidLevelRaises ==
    [][(pc = "set_categories" /\ \E p \in 1..Len(all_data_st.rows) :
                                     all_data_st.rows[p]["status"] \notin Levels) =>
        (pc' # "sort_after" /\ all_data_st'.rows = all_data_st.rows)]_vars

LevelRank(v) ==
    CASE v = "gold" -> 1 [] v = "silver" -> 2 [] v = "bronze" -> 3 [] OTHER -> 4
LexRank(v) ==
    CASE v = "bronze" -> 1 [] v = "gold" -> 2 [] v = "platinum" -> 3
      [] v = "silver" -> 4 [] OTHER -> 5

Occurrences(rows, r) == Cardinality({i \in 1..Len(rows) : rows[i] = r})
SameRows(a, b) ==
    /\ Len(a) = Len(b)
    /\ \A i \in 1..Len(a) : Occurrences(a, a[i]) = Occurrences(b, a[i])
StatusOrdered(seq, Rank(_)) ==
    \A p, q \in 1..Len(seq) : p < q => Rank(seq[p]["status"]) <= Rank(seq[q]["status"])
StatusStrictlyOrdered(seq, Rank(_)) ==
    \A p, q \in 1..Len(seq) : p < q => Rank(seq[p]["status"]) < Rank(seq[q]["status"])

\* C5: the sort made before the tagging puts the rows in lexical order of
\* status (bronze, gold, silver); once the levels are assigned, the sort has
\* the same rows with every gold row before every silver row before every
\* bronze row, and the groupings list the statuses in level order too.
C5_SortByLevelOrder ==
    /\ pc = "set_categories" =>
          /\ SameRows(sorted_before.rows, all_data_st.rows)
          /\ StatusOrdered(sorted_before.rows, LexRank)
    /\ pc \in {"groupby_mean", "groupby_agg", "count", "done"} =>
          /\ SameRows(sorted_after.rows, all_data_st.rows)
          /\ StatusOrdered(sorted_after.rows, LevelRank)
    /\ pc \in {"groupby_agg", "count", "done"} =>
          StatusStrictlyOrdered(grouped_mean, LevelRank)
    /\ pc \in {"count", "done"} => StatusStrictlyOrdered(grouped_agg, LevelRank)
    /\ pc = "done" => StatusStrictlyOrdered(counted, LevelRank)

\* gold, silver and bronze rows that both sorts had to move
C5_Witness ==
    /\ pc = "groupby_mean"
    /\ {all_data_st.rows[p]["status"] : p \in 1..Len(all_data_st.rows)} = Levels
    /\ sorted_after.rows # all_data_st.rows
    /\ sorted_before.rows # sorted_after.rows

ObservedStatuses == {all_data_st.rows[p]["status"] : p \in 1..Len(all_data_st.rows)} \ {NaN}
GroupStatuses(g) == {g[k]["status"] : k \in 1..Len(g)}

\* C6 as claimed: the grouping has exactly one row per status that some row of
\* the table carries, and no row for a level that no row carries.
C6_Original ==
    /\ pc \in {"groupby_agg", "count", "done"} =>
          /\ GroupStatuses(grouped_mean) = ObservedStatuses
          /\ Len(grouped_mean) = Cardinality(ObservedStatuses)
    /\ pc \in {"count", "done"} =>
          /\ GroupStatuses(grouped_agg) = ObservedStatuses
          /\ Len(grouped_agg) = Cardinality(ObservedStatuses)

C6_OneRowPerLevel(g) ==
    /\ Len(g) = Cardinality(Levels)
    /\ GroupStatuses(g) = Levels
    /\ ObservedStatuses \subseteq GroupStatuses(g)
    /\ \A k \in 1..Len(g) :
          g[k]["n"] = Cardinality({p \in 1..Len(all_data_st.rows) :
                                      all_data_st.rows[p]["status"] = g[k]["status"]})

\* C6 as amended: the grouping has exactly one row per level of the category
\* order, whether or not a row of the table carries the level (a level that no
\* row carries has an empty group), each group holds the rows that carry its
\* level, and no status that occurs in the table is missing from the output.
C6_GroupPerLevel ==
    /\ pc \in {"groupby_agg", "count", "done"} => C6_OneRowPerLevel(grouped_mean)
    /\ pc \in {"count", "done"} => C6_OneRowPerLevel(grouped_agg)

\* no account is silver, some are gold
C6_Witness ==
    /\ pc = "count"
    /\ "silver" \notin ObservedStatuses
    /\ "gold" \in ObservedStatuses
    /\ \E k \in 1..Len(grouped_agg) : grouped_agg[k]["n"] = 0

PairOf(r) == <<r["account number"], r["name"]>>
StPairs == {PairOf(all_data_st.rows[p]) : p \in 1..Len(all_data_st.rows)}
FirstRow(pair) ==
    all_data_st.rows[CHOOSE p \in 1..Len(all_data_st.rows) :
                        /\ PairOf(all_data_st.rows[p]) = pair
                        /\ \A q \in 1..(p - 1) : PairOf(all_data_st.rows[q]) # pair]

\* C8 as claimed: the count of a status is the number of distinct (account
\* number, name) pairs whose first row carries that status.
C8_Original ==
    pc = "done" =>
        \A k \in 1..Len(counted) :
            counted[k]["count"] =
                Cardinality({pr \in StPairs : FirstRow(pr)["status"] = counted[k]["status"]})

\* C8 as amended: the count of a status is the number of distinct (account
\* number, name) pairs with a name that is not missing whose first row carries
\* that status.
C8_CountFirstRows ==
    pc = "done" =>
        \A k \in 1..Len(counted) :
            counted[k]["count"] =
                Cardinality({pr \in StPairs :
                                /\ pr[2] # NaN
                                /\ FirstRow(pr)["status"] = counted[k]["status"]})

\* an account with two rows of different status, counted once
C8_Witness ==
    /\ pc = "done"
    /\ \E p, q \in 1..Len(all_data_st.rows) :
          /\ p < q
          /\ PairOf(all_data_st.rows[p]) = PairOf(all_data_st.rows[q])
          /\ all_data_st.rows[p]["name"] # NaN
          /\ all_data_st.rows[p]["status"] \in Levels
          /\ all_data_st.rows[q]["status"] \in Levels
          /\ all_data_st.rows[p]["status"] # all_data_st.rows[q]["status"]
    /\ \E k \in 1..Len(counted) : counted[k]["count"] = 1

C9_Kept(old, new) == new.id = old.id => new = old

\* C9 as claimed: no statement changes a table it is given, except the fill
\* and the category tagging, which change the joined table.
C9_Original ==
    [][/\ C9_Kept(all_data, all_data')
       /\ C9_Kept(status, status')
       /\ pc \notin {"fillna", "astype", "set_categories"} =>
             C9_Kept(all_data_st, all_data_st')
       /\ C9_Kept(sorted_before, sorted_before')
       /\ C9_Kept(sorted_after, sorted_after')]_vars

\* C9 as amended: no statement changes a table it is given, with three
\* exceptions: the date conversion, which puts the converted column into the
\* concatenated table itself, and the fill and the category tagging, which
\* change the joined table; the join leaves the sales table and the status
\* table as they are and returns a table of its own.
C9_InPlaceSteps ==
    [][/\ pc # "to_datetime" => C9_Kept(all_data, all_data')
       /\ (pc = "to_datetime" /\ all_data.rows # <<>>) =>
             (all_data'.id = all_data.id /\ all_data' # all_data)
       /\ C9_Kept(status, status')
       /\ pc \notin {"fillna", "astype", "set_categories"} =>
             C9_Kept(all_data_st, all_data_st')
       /\ pc = "merge" =>
             /\ all_data' = all_data
             /\ status' = status
             /\ all_data_st'.id \notin {all_data.id, status.id}
       /\ C9_Kept(sorted_before, sorted_before')
       /\ C9_Kept(sorted_after, sorted_after')]_vars

\* the joined table exists beside a converted sales table and the status table
C9_Witness ==
    /\ pc = "fillna"
    /\ all_data.rows # <<>>
    /\ status.rows # <<>>
    /\ \A i \in 1..Len(all_data.rows) : all_data.rows[i]["date"] \notin RawDates

DataPairs == {PairOf(all_data.rows[i]) : i \in 1..Len(all_data.rows)}
RECURSIVE TotalCount(_)
TotalCount(k) == IF k = 0 THEN 0 ELSE counted[k]["count"] + TotalCount(k - 1)

\* the status the first joined row of a pair gets from the status table
FirstRefStatus(pair) ==
    LET l == CHOOSE r \in Range(all_data.rows) : PairOf(r) = pair
    IN  IF RefMatches(l) = {} THEN NaN ELSE status.rows[NthMatch(l, 1)]["status"]

C10_NothingLost ==
    /\ \A i \in 1..Len(all_data.rows) : all_data.rows[i]["name"] # NaN
    /\ \A i \in 1..Len(all_data.rows) : \A j \in RefMatches(all_data.rows[i]) :
          status.rows[j]["status"] \in Levels \cup {NaN}

\* C10: at the end, when no name is missing and no status of a matching
\* status row lies outside the levels, the counts sum to the number of
\* distinct (account number, name) pairs of the sales table; in general they
\* sum to the number of pairs with a name whose first status is a level or
\* missing, so an account whose status lies outside the levels is in no count.
C10_CountsConserveAccounts ==
    pc = "done" =>
        /\ C10_NothingLost => TotalCount(Len(counted)) = Cardinality(DataPairs)
        /\ TotalCount(Len(counted)) =
              Cardinality({pr \in DataPairs :
                              /\ pr[2] # NaN
                              /\ FirstRefStatus(pr) \in Levels \cup {NaN}})

\* two accounts, one of them with two joined rows, all counted
C10_Witness ==
    /\ pc = "done"
    /\ C10_NothingLost
    /\ Cardinality(DataPairs) = 2
    /\ Len(all_data_st.rows) = 3
    /\ TotalCount(Len(counted)) = 2

====
